---- MODULE Spec2Model ----
(***************************************************************************)
(* Model of takopi_acp_engine.runner: the ACP event translator             *)
(* (AcpRunner.translate and its helpers, acting on an AcpStreamState) and  *)
(* the frame reader (AcpRunner.iter_json_lines) with the request encoder   *)
(* (AcpRunner.stdin_payload).                                              *)
(*                                                                         *)
(* Python values are tagged records: None, JStr, JInt, JDict, JList.       *)
(* A str is a sequence of tokens; a token is an indivisible piece of text. *)
(* The literals the code tests as prefixes ("run.", "agent") are whole     *)
(* tokens, so str.startswith is the prefix test on token sequences.        *)
(* bytes are sequences of one-character strings.                           *)
(***************************************************************************)
EXTENDS Integers, Sequences, FiniteSets, TLC

VARIABLES
    state,          \* the AcpStreamState of the run
    resume,         \* the resume token the caller passes to translate
    data,           \* the decoded value of the latest translate call
    out,            \* the list returned by the latest translate call
    started,        \* history: the Started events emitted so far, in order
    uniform,        \* history: the one session id all run.* events so far carried
    requested_text, \* history: the text the requested appends and replaces leave
    replaced,       \* history: a replace was requested
    actions,        \* history: the ids of the Action events emitted so far, in order
    buffer,         \* frame reader: bytes of the stream not yet consumed
    pc,             \* frame reader: position of the generator
    headers,        \* frame reader: the header lines of the block being read
    yielded,        \* frame reader: payloads yielded so far
    sent,           \* frame reader: history, the bodies that were encoded
    framed,         \* frame reader: history, how the stream was built
    raw_line,           \* decoder: the payload handed to decode_jsonl
    decoded,        \* decoder: what decode_jsonl returned for it
    diagnostics     \* decoder: the events invalid_json_events returned for it

tvars == <<state, resume, data, out, started, uniform, requested_text, replaced,
           actions>>
fvars == <<buffer, pc, headers, yielded, sent, framed>>
dvars == <<raw_line, decoded, diagnostics>>
vars == <<state, resume, data, out, started, uniform, requested_text, replaced,
          actions, buffer, pc, headers, yielded, sent, framed,
          raw_line, decoded, diagnostics>>

-----------------------------------------------------------------------------
(* Bounds of the model *)

MaxActions == 2
MaxText == 2
MaxFrames == 2
MaxChunks == 4
MaxTokens == 3

-----------------------------------------------------------------------------
(* Python values *)

None == [t |-> "null"]
JStr(s) == [t |-> "str", s |-> s]
JInt(n) == [t |-> "int", n |-> n]
JDict(d) == [t |-> "dict", d |-> d]
JList(l) == [t |-> "list", l |-> l]

\* dict.get(key): the value, or None when the key is missing
Get(obj, key) == IF key \in DOMAIN obj.d THEN obj.d[key] ELSE None

\* str.startswith(prefix)
StartsWith(s, prefix) ==
    /\ Len(s) >= Len(prefix)
    /\ SubSeq(s, 1, Len(prefix)) = prefix

\* isinstance(v, str) and v
NonEmptyStr(v) == v.t = "str" /\ v.s # <<>>

ENGINE == <<"droid">>

ResumeToken(engine, value) == [t |-> "token", engine |-> engine, value |-> value]

StartedEvent(engine, res, title) ==
    [type |-> "started", engine |-> engine, resume |-> res, title |-> title]

CompletedEvent(engine, ok, answer, res, error) ==
    [type |-> "completed", engine |-> engine, ok |-> ok, answer |-> answer,
     resume |-> res, error |-> error]

Action(id, kind, title, detail) ==
    [id |-> id, kind |-> kind, title |-> title, detail |-> detail]

ActionEvent(engine, action, phase, ok, message, level) ==
    [type |-> "action", engine |-> engine, action |-> action, phase |-> phase,
     ok |-> ok, message |-> message, level |-> level]

\* AcpStreamState(): the defaults of the dataclass
AcpStreamState ==
    [session_id |-> None, last_text |-> <<>>, emitted_started |-> FALSE,
     action_seq |-> 0]

new_state == AcpStreamState

\* str(n) for n >= 0, as a sequence of digit tokens
Digit(d) == <<"0", "1", "2", "3", "4", "5", "6", "7", "8", "9">>[d + 1]

RECURSIVE FormatInt(_)
FormatInt(n) == IF n < 10 THEN <<Digit(n)>>
                ELSE FormatInt(n \div 10) \o <<Digit(n % 10)>>

-----------------------------------------------------------------------------
(* The translator *)

\* what a translate call gives back: the mutated state and the returned list
Ret(st, events) == [st |-> st, events |-> events]

\* as resume_from_state, but the caller's token wins over the stored session id
resume_from_state_prefers_caller(st, res) ==
    IF res # None THEN res
    ELSE IF NonEmptyStr(st.session_id)
    THEN ResumeToken(ENGINE, st.session_id.s)
    ELSE res

resume_from_state(st, res) ==
    IF NonEmptyStr(st.session_id)
    THEN ResumeToken(ENGINE, st.session_id.s)
    ELSE res

RECURSIVE parts_to_text(_)
parts_to_text(parts) ==
    IF parts = <<>> THEN <<>>
    ELSE LET part == Head(parts)
             rest == parts_to_text(Tail(parts))
         IN IF part.t # "dict" THEN rest
            ELSE IF Get(part, "content_type") # JStr(<<"text/plain">>) THEN rest
            ELSE LET content == Get(part, "content")
                 IN IF NonEmptyStr(content) THEN content.s \o rest ELSE rest

\* as trajectory_action, but the counter is left as it was
trajectory_action_no_increment(metadata, st) ==
    LET seq == st.action_seq + 1
        message == Get(metadata, "message")
        tool_name == Get(metadata, "tool_name")
        tool_input == Get(metadata, "tool_input")
        tool_output == Get(metadata, "tool_output")
        named == NonEmptyStr(tool_name)
        title == IF named THEN tool_name.s ELSE <<"trajectory">>
        kind == IF named THEN "tool" ELSE "note"
        detail == IF named
                  THEN JDict([tool_name |-> tool_name, tool_input |-> tool_input,
                              tool_output |-> tool_output])
                  ELSE JDict([message |-> message])
        action == Action(<<"acp", ".", "trajectory", ".">> \o FormatInt(seq),
                         kind, title, detail)
    IN Ret(st,
           <<ActionEvent(ENGINE, action, "completed", TRUE,
                         IF message.t = "str" THEN message ELSE None, "info")>>)

\* as trajectory_action, but the id is built before the counter is incremented
trajectory_action_stale_id(metadata, st) ==
    LET seq == st.action_seq + 1
        message == Get(metadata, "message")
        tool_name == Get(metadata, "tool_name")
        tool_input == Get(metadata, "tool_input")
        tool_output == Get(metadata, "tool_output")
        named == NonEmptyStr(tool_name)
        title == IF named THEN tool_name.s ELSE <<"trajectory">>
        kind == IF named THEN "tool" ELSE "note"
        detail == IF named
                  THEN JDict([tool_name |-> tool_name, tool_input |-> tool_input,
                              tool_output |-> tool_output])
                  ELSE JDict([message |-> message])
        action == Action(<<"acp", ".", "trajectory", ".">> \o FormatInt(st.action_seq),
                         kind, title, detail)
    IN Ret([st EXCEPT !.action_seq = seq],
           <<ActionEvent(ENGINE, action, "completed", TRUE,
                         IF message.t = "str" THEN message ELSE None, "info")>>)

trajectory_action(metadata, st) ==
    LET seq == st.action_seq + 1
        message == Get(metadata, "message")
        tool_name == Get(metadata, "tool_name")
        tool_input == Get(metadata, "tool_input")
        tool_output == Get(metadata, "tool_output")
        named == NonEmptyStr(tool_name)
        title == IF named THEN tool_name.s ELSE <<"trajectory">>
        kind == IF named THEN "tool" ELSE "note"
        detail == IF named
                  THEN JDict([tool_name |-> tool_name, tool_input |-> tool_input,
                              tool_output |-> tool_output])
                  ELSE JDict([message |-> message])
        action == Action(<<"acp", ".", "trajectory", ".">> \o FormatInt(seq),
                         kind, title, detail)
    IN Ret([st EXCEPT !.action_seq = seq],
           <<ActionEvent(ENGINE, action, "completed", TRUE,
                         IF message.t = "str" THEN message ELSE None, "info")>>)

\* as RunSession, but without the test of emitted_started
RunSession_restarts(run, st) ==
    IF run.t # "dict" THEN [st |-> st, started_event |-> None]
    ELSE LET session_id == Get(run, "session_id")
             st1 == IF NonEmptyStr(session_id)
                    THEN [st EXCEPT !.session_id = session_id]
                    ELSE st
         IN IF NonEmptyStr(st1.session_id)
            THEN [st |-> [st1 EXCEPT !.emitted_started = TRUE],
                  started_event |->
                      StartedEvent(ENGINE, ResumeToken(ENGINE, st1.session_id.s),
                                   <<"Droid">>)]
            ELSE [st |-> st1, started_event |-> None]

\* as RunSession, but a stored session id is kept (first seen wins)
RunSession_first_wins(run, st) ==
    IF run.t # "dict" THEN [st |-> st, started_event |-> None]
    ELSE LET session_id == Get(run, "session_id")
             st1 == IF NonEmptyStr(session_id) /\ ~NonEmptyStr(st.session_id)
                    THEN [st EXCEPT !.session_id = session_id]
                    ELSE st
         IN IF ~st1.emitted_started /\ NonEmptyStr(st1.session_id)
            THEN [st |-> [st1 EXCEPT !.emitted_started = TRUE],
                  started_event |->
                      StartedEvent(ENGINE, ResumeToken(ENGINE, st1.session_id.s),
                                   <<"Droid">>)]
            ELSE [st |-> st1, started_event |-> None]

\* as RunSession, but Started is decided on the session id stored before the call
RunSession_silent(run, st) ==
    IF run.t # "dict" THEN [st |-> st, started_event |-> None]
    ELSE LET session_id == Get(run, "session_id")
             st1 == IF NonEmptyStr(session_id)
                    THEN [st EXCEPT !.session_id = session_id]
                    ELSE st
         IN IF ~st1.emitted_started /\ NonEmptyStr(st.session_id)
            THEN [st |-> [st1 EXCEPT !.emitted_started = TRUE],
                  started_event |->
                      StartedEvent(ENGINE, ResumeToken(ENGINE, st1.session_id.s),
                                   <<"Droid">>)]
            ELSE [st |-> st1, started_event |-> None]

\* lines 239-251: the session id of the run object, and Started
RunSession(run, st) ==
    IF run.t # "dict" THEN [st |-> st, started_event |-> None]
    ELSE LET session_id == Get(run, "session_id")
             st1 == IF NonEmptyStr(session_id)
                    THEN [st EXCEPT !.session_id = session_id]
                    ELSE st
         IN IF ~st1.emitted_started /\ NonEmptyStr(st1.session_id)
            THEN [st |-> [st1 EXCEPT !.emitted_started = TRUE],
                  started_event |->
                      StartedEvent(ENGINE, ResumeToken(ENGINE, st1.session_id.s),
                                   <<"Droid">>)]
            ELSE [st |-> st1, started_event |-> None]

\* as ErrorMessage, but an error that is itself a string is dropped
ErrorMessage_dict_only(err) ==
    IF err.t = "dict" THEN Get(err, "message") ELSE None

\* lines 264-270 and 214-219: the message of an error value
ErrorMessage(err) ==
    IF err.t = "dict" THEN Get(err, "message")
    ELSE IF err.t = "str" THEN err
    ELSE None

\* lines 253-279: the terminal event of a run.* event
RunEvents(evt_type, run, st, res) ==
    IF evt_type = <<"run.", "completed">>
    THEN <<CompletedEvent(ENGINE, TRUE, st.last_text, resume_from_state(st, res), None)>>
    ELSE IF evt_type \in {<<"run.", "failed">>, <<"run.", "cancelled">>}
    THEN LET error == IF run.t = "dict" THEN ErrorMessage(Get(run, "error")) ELSE None
         IN <<CompletedEvent(ENGINE, FALSE, st.last_text, resume_from_state(st, res),
                             error)>>
    ELSE <<>>

\* as RunResult, but Started is put after the events of the call
RunResult_started_last(started_event, events) ==
    IF started_event = None THEN events ELSE events \o <<started_event>>

\* lines 281-283: Started goes first
RunResult(started_event, events) ==
    IF started_event = None THEN events ELSE <<started_event>> \o events

handle_run_event(evt_type, d, st, res) ==
    LET run == Get(d, "run")
        s == RunSession(run, st)
    IN Ret(s.st, RunResult(s.started_event, RunEvents(evt_type, run, s.st, res)))

\* as MessagePart, but the content is put in front of the accumulated text
MessagePart_prepends(d, st) ==
    LET part == Get(d, "part")
    IN IF part.t # "dict" THEN Ret(st, <<>>)
       ELSE LET content_type == Get(part, "content_type")
                content == Get(part, "content")
                st1 == IF content_type = JStr(<<"text/plain">>) /\ content.t = "str"
                       THEN [st EXCEPT !.last_text = content.s \o st.last_text]
                       ELSE st
                metadata == Get(part, "metadata")
            IN IF metadata.t = "dict"
                  /\ Get(metadata, "kind") = JStr(<<"trajectory">>)
               THEN trajectory_action(metadata, st1)
               ELSE Ret(st1, <<>>)

\* as MessagePart, but a part whose text was appended gives no Action
MessagePart_text_or_action(d, st) ==
    LET part == Get(d, "part")
    IN IF part.t # "dict" THEN Ret(st, <<>>)
       ELSE LET content_type == Get(part, "content_type")
                content == Get(part, "content")
                metadata == Get(part, "metadata")
            IN IF content_type = JStr(<<"text/plain">>) /\ content.t = "str"
               THEN Ret([st EXCEPT !.last_text = st.last_text \o content.s], <<>>)
               ELSE IF metadata.t = "dict"
                       /\ Get(metadata, "kind") = JStr(<<"trajectory">>)
               THEN trajectory_action(metadata, st)
               ELSE Ret(st, <<>>)

\* lines 188-199
MessagePart(d, st) ==
    LET part == Get(d, "part")
    IN IF part.t # "dict" THEN Ret(st, <<>>)
       ELSE LET content_type == Get(part, "content_type")
                content == Get(part, "content")
                st1 == IF content_type = JStr(<<"text/plain">>) /\ content.t = "str"
                       THEN [st EXCEPT !.last_text = st.last_text \o content.s]
                       ELSE st
                metadata == Get(part, "metadata")
            IN IF metadata.t = "dict"
                  /\ Get(metadata, "kind") = JStr(<<"trajectory">>)
               THEN trajectory_action(metadata, st1)
               ELSE Ret(st1, <<>>)

\* as MessageDone, but the text of the message is appended
MessageDone_appends(d, st) ==
    LET message == Get(d, "message")
    IN IF message.t # "dict" THEN Ret(st, <<>>)
       ELSE LET role == Get(message, "role")
            IN IF ~(role.t = "str" /\ StartsWith(role.s, <<"agent">>))
               THEN Ret(st, <<>>)
               ELSE LET parts == Get(message, "parts")
                    IN IF parts.t # "list" THEN Ret(st, <<>>)
                       ELSE LET text == parts_to_text(parts.l)
                            IN IF text # <<>>
                               THEN Ret([st EXCEPT !.last_text = st.last_text \o text],
                                        <<>>)
                               ELSE Ret(st, <<>>)

\* as MessageDone, but without the test of the role
MessageDone_any_role(d, st) ==
    LET message == Get(d, "message")
    IN IF message.t # "dict" THEN Ret(st, <<>>)
       ELSE LET parts == Get(message, "parts")
            IN IF parts.t # "list" THEN Ret(st, <<>>)
               ELSE LET text == parts_to_text(parts.l)
                    IN IF text # <<>>
                       THEN Ret([st EXCEPT !.last_text = text], <<>>)
                       ELSE Ret(st, <<>>)

\* lines 201-211
MessageDone(d, st) ==
    LET message == Get(d, "message")
    IN IF message.t # "dict" THEN Ret(st, <<>>)
       ELSE LET role == Get(message, "role")
            IN IF ~(role.t = "str" /\ StartsWith(role.s, <<"agent">>))
               THEN Ret(st, <<>>)
               ELSE LET parts == Get(message, "parts")
                    IN IF parts.t # "list" THEN Ret(st, <<>>)
                       ELSE LET text == parts_to_text(parts.l)
                            IN IF text # <<>>
                               THEN Ret([st EXCEPT !.last_text = text], <<>>)
                               ELSE Ret(st, <<>>)

\* as ErrorEvent, but the answer is left empty
ErrorEvent_no_answer(d, st, res) ==
    Ret(st, <<CompletedEvent(ENGINE, FALSE, <<>>, resume_from_state(st, res),
                             ErrorMessage(Get(d, "error")))>>)

\* lines 213-228
ErrorEvent(d, st, res) ==
    Ret(st, <<CompletedEvent(ENGINE, FALSE, st.last_text, resume_from_state(st, res),
                             ErrorMessage(Get(d, "error")))>>)

\* as translate, but a type it does not know is handled as an error event
translate_unknown_is_error(d, st, res) ==
    IF d.t # "dict" THEN Ret(st, <<>>)
    ELSE LET evt_type == Get(d, "type")
         IN IF evt_type.t # "str" THEN Ret(st, <<>>)
            ELSE IF StartsWith(evt_type.s, <<"run.">>)
            THEN handle_run_event(evt_type.s, d, st, res)
            ELSE IF evt_type.s = <<"message.part">> THEN MessagePart(d, st)
            ELSE IF evt_type.s \in {<<"message.created">>, <<"message.completed">>}
            THEN MessageDone(d, st)
            ELSE ErrorEvent(d, st, res)

\* lines 167-230; state is always an AcpStreamState here (line 176)
translate(d, st, res) ==
    IF d.t # "dict" THEN Ret(st, <<>>)
    ELSE LET evt_type == Get(d, "type")
         IN IF evt_type.t # "str" THEN Ret(st, <<>>)
            ELSE IF StartsWith(evt_type.s, <<"run.">>)
            THEN handle_run_event(evt_type.s, d, st, res)
            ELSE IF evt_type.s = <<"message.part">> THEN MessagePart(d, st)
            ELSE IF evt_type.s \in {<<"message.created">>, <<"message.completed">>}
            THEN MessageDone(d, st)
            ELSE IF evt_type.s = <<"error">> THEN ErrorEvent(d, st, res)
            ELSE Ret(st, <<>>)

-----------------------------------------------------------------------------
(* The decoded values fed to translate *)

S1 == <<"s1">>
S2 == <<"s2">>
TextPlain == JStr(<<"text/plain">>)
Trajectory == JStr(<<"trajectory">>)
Boom == JStr(<<"boom">>)
Timeout == JDict([message |-> JStr(<<"timeout">>)])

ErrorVals ==
    { Boom, Timeout, JDict([message |-> JInt(5)]), JDict([code |-> JInt(1)]), JInt(3) }

RunEvent(kind, run) == JDict([type |-> JStr(<<"run.", kind>>), run |-> run])

RunInputs ==
    { JDict([type |-> JStr(<<"run.", k>>)]) : k \in {"created", "completed", "cancelled"} }
    \cup { RunEvent("created", r) :
             r \in { JInt(0), JDict([status |-> JStr(<<"x">>)]) }
                   \cup { JDict([session_id |-> v]) :
                            v \in {JStr(S1), JStr(S2), JStr(<<>>), JInt(7)} } }
    \cup { RunEvent("completed", r) :
             r \in { JDict([status |-> JStr(<<"x">>)]), JDict([session_id |-> JStr(S1)]),
                     JDict([session_id |-> JStr(S2)]) } }
    \cup { RunEvent("failed", r) :
             r \in { JInt(0), JDict([error |-> Boom]) }
                   \cup { JDict([session_id |-> JStr(S1), error |-> e]) : e \in ErrorVals } }
    \cup { RunEvent("cancelled", JDict([session_id |-> JStr(S2), error |-> Timeout])) }

MetaTool ==
    JDict([kind |-> Trajectory, tool_name |-> JStr(<<"Read">>),
           tool_input |-> JDict([file_path |-> JStr(<<"README.md">>)]),
           tool_output |-> JStr(<<"ok">>)])
MetaNote == JDict([kind |-> Trajectory, message |-> JStr(<<"thinking">>)])
MetaUnnamed == JDict([kind |-> Trajectory, tool_name |-> JStr(<<>>), message |-> JInt(2)])
MetaOther == JDict([kind |-> JStr(<<"usage">>)])

Part(content_type, content) == JDict([content_type |-> content_type, content |-> content])
PartWith(content_type, content, metadata) ==
    JDict([content_type |-> content_type, content |-> content, metadata |-> metadata])

PartObjects ==
    { JStr(<<"a">>), Part(JStr(<<"image/png">>), JStr(<<"a">>)) }
    \cup { Part(TextPlain, c) : c \in {JStr(<<"a">>), JStr(<<"b">>), JStr(<<>>), JInt(1)} }
    \cup { PartWith(TextPlain, JStr(<<"a">>), m) : m \in {MetaTool, MetaOther, Trajectory} }
    \cup { PartWith(TextPlain, JStr(<<>>), MetaTool) }
    \cup { JDict([metadata |-> m]) : m \in {MetaNote, MetaUnnamed} }

PartInputs ==
    { JDict([type |-> JStr(<<"message.part">>), part |-> p]) : p \in PartObjects }
    \cup { JDict([type |-> JStr(<<"message.part">>)]) }

PartLists ==
    { <<Part(TextPlain, JStr(<<"a">>))>>,
      <<Part(TextPlain, JStr(<<"a">>)), Part(TextPlain, JStr(<<"b">>))>>,
      <<Part(TextPlain, JStr(<<>>))>>,
      <<JInt(1), Part(JStr(<<"image/png">>), JStr(<<"a">>)), Part(TextPlain, JStr(<<"b">>)),
        Part(TextPlain, JInt(4)), Part(TextPlain, JStr(<<>>))>>,
      <<>> }

Message(role, parts) == JDict([role |-> role, parts |-> parts])
OneA == JList(<<Part(TextPlain, JStr(<<"a">>))>>)

MessageObjects ==
    { JInt(0), JDict([role |-> JStr(<<"agent">>)]), JDict([parts |-> OneA]),
      Message(JStr(<<"agent">>), JStr(<<"a">>)),
      Message(JStr(<<"user">>), OneA), Message(JInt(1), OneA) }
    \cup { Message(JStr(<<"agent", "/droid">>), JList(l)) : l \in PartLists }

MessageInputs ==
    { JDict([type |-> JStr(<<"message.completed">>), message |-> m]) : m \in MessageObjects }
    \cup { JDict([type |-> JStr(<<"message.completed">>)]),
           JDict([type |-> JStr(<<"message.created">>),
                  message |-> Message(JStr(<<"agent">>),
                                      JList(<<Part(TextPlain, JStr(<<"b">>))>>))]) }

ErrorInputs ==
    { JDict([type |-> JStr(<<"error">>), error |-> e]) :
        e \in {Boom, Timeout, JDict([code |-> JInt(1)]), JInt(3)} }
    \cup { JDict([type |-> JStr(<<"error">>)]) }

OtherInputs ==
    { JInt(0),
      JDict([run |-> JDict([session_id |-> JStr(S1)])]),
      JDict([type |-> JInt(1), run |-> JDict([session_id |-> JStr(S1)])]),
      JDict([type |-> JStr(<<"ping">>), run |-> JDict([session_id |-> JStr(S2)])]) }

Inputs == RunInputs \cup PartInputs \cup MessageInputs \cup ErrorInputs \cup OtherInputs

Resumes == { None, ResumeToken(ENGINE, <<"r0">>) }

-----------------------------------------------------------------------------
(* What an input asks for, read off the input alone (for the history) *)

TypeOf(d) ==
    IF d.t = "dict" /\ "type" \in DOMAIN d.d /\ d.d.type.t = "str"
    THEN d.d.type.s ELSE <<>>

IsRun(d) == TypeOf(d) # <<>> /\ Head(TypeOf(d)) = "run."
IsPart(d) == TypeOf(d) = <<"message.part">>
IsMessage(d) == TypeOf(d) \in {<<"message.created">>, <<"message.completed">>}
IsError(d) == TypeOf(d) = <<"error">>
IsRunFailure(d) == TypeOf(d) \in {<<"run.", "failed">>, <<"run.", "cancelled">>}
IsRunCompleted(d) == TypeOf(d) = <<"run.", "completed">>
IsTerminal(d) == IsError(d) \/ IsRunFailure(d) \/ IsRunCompleted(d)

Field(obj, key) ==
    IF obj.t = "dict" /\ key \in DOMAIN obj.d THEN obj.d[key] ELSE None

\* the non-empty session id a run.* event carries in its run object, or None
CarriedSid(d) ==
    LET v == Field(Field(d, "run"), "session_id")
    IN IF IsRun(d) /\ v.t = "str" /\ v.s # <<>> THEN v ELSE None

IsPlainText(p) == Field(p, "content_type") = TextPlain /\ Field(p, "content").t = "str"

RECURSIVE Flatten(_)
Flatten(texts) == IF texts = <<>> THEN <<>> ELSE Head(texts) \o Flatten(Tail(texts))

\* the message of an agent role, or None
AgentMessage(d) ==
    LET m == Field(d, "message")
        role == Field(m, "role")
    IN IF IsMessage(d) /\ role.t = "str" /\ role.s # <<>> /\ Head(role.s) = "agent"
       THEN m ELSE None

\* the contents of the plain-text parts of a message, in order
PlainTexts(m) ==
    LET parts == Field(m, "parts")
        texts == IF parts.t = "list" THEN SelectSeq(parts.l, IsPlainText) ELSE <<>>
    IN [i \in 1..Len(texts) |-> texts[i].d.content.s]

IsAppend(d) == IsPart(d) /\ IsPlainText(Field(d, "part"))
IsReplace(d) == Flatten(PlainTexts(AgentMessage(d))) # <<>>

\* the text the requested operation leaves
Requested(text, d) ==
    IF IsAppend(d) THEN text \o Field(d, "part").d.content.s
    ELSE IF IsReplace(d) THEN Flatten(PlainTexts(AgentMessage(d)))
    ELSE text

Mixed == [t |-> "mixed"]

\* the session id all run.* events carried, while only run.* and message.part came
Uniform(u, d) ==
    IF IsPart(d) THEN u
    ELSE IF IsRun(d) /\ CarriedSid(d) # None /\ u \in {None, CarriedSid(d)}
    THEN CarriedSid(d)
    ELSE Mixed

IsStarted(e) == e.type = "started"
IsCompleted(e) == e.type = "completed"
IsAction(e) == e.type = "action"

Count(events, P(_)) == Cardinality({i \in DOMAIN events : P(events[i])})

\* the ids of the Action events of a list, in order
ActionIds(events) ==
    LET acts == SelectSeq(events, IsAction)
    IN [i \in 1..Len(acts) |-> acts[i].action.id]

-----------------------------------------------------------------------------
(* The run of the translator: the host calls translate once per decoded value *)

FrameIdle ==
    /\ buffer = <<>>
    /\ pc = "idle"
    /\ headers = <<>>
    /\ yielded = <<>>
    /\ sent = <<>>
    /\ framed = FALSE

Fresh ==
    /\ state = new_state
    /\ data = None
    /\ out = <<>>
    /\ started = <<>>
    /\ uniform = None
    /\ requested_text = <<>>
    /\ replaced = FALSE
    /\ actions = <<>>

Pending == [t |-> "pending"]

DecodeIdle ==
    /\ raw_line = <<>>
    /\ decoded = Pending
    /\ diagnostics = <<>>

Init ==
    /\ Fresh
    /\ resume \in Resumes
    /\ FrameIdle
    /\ DecodeIdle

Translate ==
    \E d \in Inputs :
        LET r == translate(d, state, resume)
        IN /\ r.st.action_seq <= MaxActions
           /\ Len(Requested(requested_text, d)) <= MaxText
           /\ state' = r.st
           /\ data' = d
           /\ out' = r.events
           /\ started' = started \o SelectSeq(r.events, IsStarted)
           /\ uniform' = Uniform(uniform, d)
           /\ requested_text' = Requested(requested_text, d)
           /\ replaced' = (replaced \/ IsReplace(d))
           /\ actions' = actions \o ActionIds(r.events)
           /\ UNCHANGED <<resume, buffer, pc, headers, yielded, sent, framed, dvars>>

Next == Translate

Spec == Init /\ [][Next]_vars

-----------------------------------------------------------------------------
(* The frame reader and the request encoder *)

LF == "\n"
CR == "\r"

ContentLength ==
    <<"C", "o", "n", "t", "e", "n", "t", "-", "L", "e", "n", "g", "t", "h", ":">>

\* bytes.lower(), on the bytes of the model: the other bytes have no upper case
LowerByte(b) == IF b = "C" THEN "c" ELSE IF b = "L" THEN "l" ELSE b
Lower(bs) == [i \in 1..Len(bs) |-> LowerByte(bs[i])]

\* ASCII whitespace, as bytes.strip() sees it
IsSpace(b) == b \in {" ", "\t", LF, CR}

RECURSIVE LStrip(_)
LStrip(bs) == IF bs # <<>> /\ IsSpace(Head(bs)) THEN LStrip(Tail(bs)) ELSE bs

RECURSIVE RStrip(_)
RStrip(bs) ==
    IF bs # <<>> /\ IsSpace(bs[Len(bs)]) THEN RStrip(SubSeq(bs, 1, Len(bs) - 1)) ELSE bs

Strip(bs) == LStrip(RStrip(bs))

\* bytes.rstrip(b"\n")
RECURSIVE RStripLF(_)
RStripLF(bs) ==
    IF bs # <<>> /\ bs[Len(bs)] = LF THEN RStripLF(SubSeq(bs, 1, Len(bs) - 1)) ELSE bs

\* position of the first b in bs, 0 when there is none
Find(bs, b) ==
    IF \E i \in DOMAIN bs : bs[i] = b
    THEN CHOOSE i \in DOMAIN bs : bs[i] = b /\ \A j \in 1..(i - 1) : bs[j] # b
    ELSE 0

\* line.strip().lower().startswith(b"content-length:")
IsContentLength(line) == StartsWith(Lower(Strip(line)), Lower(ContentLength))

DigitValue(b) ==
    CHOOSE d \in 0..9 : Digit(d) = b

IsDigit(b) == \E d \in 0..9 : Digit(d) = b

RECURSIVE DecimalValue(_)
DecimalValue(bs) ==
    IF bs = <<>> THEN 0
    ELSE 10 * DecimalValue(SubSeq(bs, 1, Len(bs) - 1)) + DigitValue(bs[Len(bs)])

\* int(value) of a run of decimal digits; None stands for ValueError. The bytes
\* of the streams below hold no sign and no underscore.
ParseInt(bs) ==
    IF bs # <<>> /\ \A i \in DOMAIN bs : IsDigit(bs[i])
    THEN JInt(DecimalValue(bs))
    ELSE None

\* lines 88-93 of stdin_payload: the encoded body, framed as configured
stdin_payload(body, lsp_framing) ==
    IF ~lsp_framing THEN body \o <<LF>>
    ELSE ContentLength \o <<" ">> \o FormatInt(Len(body)) \o <<CR, LF, CR, LF>> \o body

\* BufferedByteReceiveStream.receive_until(b"\n", ...): the bytes before the first
\* delimiter, which is consumed and not returned; IncompleteRead when the stream
\* ends before a delimiter arrives. Lines stay far below the limit of 1 MiB, so
\* DelimiterNotFound does not occur.
receive_until(buf) ==
    LET i == Find(buf, LF)
    IN IF i = 0 THEN [incomplete |-> TRUE, bytes |-> <<>>, rest |-> buf]
       ELSE [incomplete |-> FALSE, bytes |-> SubSeq(buf, 1, i - 1),
             rest |-> SubSeq(buf, i + 1, Len(buf))]

\* BufferedByteReceiveStream.receive_exactly(n)
receive_exactly(buf, n) ==
    IF Len(buf) < n THEN [incomplete |-> TRUE, bytes |-> <<>>, rest |-> buf]
    ELSE [incomplete |-> FALSE, bytes |-> SubSeq(buf, 1, n),
          rest |-> SubSeq(buf, n + 1, Len(buf))]

\* lines 148-155: the length the first Content-Length header declares
RECURSIVE DeclaredLength(_)
DeclaredLength(hs) ==
    IF hs = <<>> THEN None
    ELSE IF IsContentLength(Head(hs))
    THEN LET header == Head(hs)
             colon == Find(header, ":")
         IN ParseInt(Strip(SubSeq(header, colon + 1, Len(header))))
    ELSE DeclaredLength(Tail(hs))

\* line 146: the header line that ends a header block
EndsHeaders(header_line) == header_line \in {<<CR, LF>>, <<LF>>}

\* lines 134-140 and 165: the next line; a header block starts, or the line is yielded
ReadLine ==
    /\ pc = "read"
    /\ LET r == receive_until(buffer)
       IN IF r.incomplete
          THEN /\ pc' = "done"
               /\ UNCHANGED <<buffer, headers, yielded>>
          ELSE /\ buffer' = r.rest
               /\ IF IsContentLength(r.bytes)
                  THEN /\ headers' = <<r.bytes>>
                       /\ pc' = "headers"
                       /\ UNCHANGED yielded
                  ELSE /\ yielded' = Append(yielded, RStripLF(r.bytes))
                       /\ pc' = "read"
                       /\ UNCHANGED headers
    /\ UNCHANGED <<tvars, sent, framed, dvars>>

\* lines 143-163: the next header line; after the line that ends the block, the
\* declared length is parsed and the payload is read and yielded
ReadHeaderLine ==
    /\ pc = "headers"
    /\ LET r == receive_until(buffer)
       IN IF r.incomplete
          THEN /\ pc' = "raised"
               /\ UNCHANGED <<buffer, headers, yielded>>
          ELSE /\ headers' = Append(headers, r.bytes)
               /\ IF ~EndsHeaders(r.bytes)
                  THEN /\ buffer' = r.rest
                       /\ pc' = "headers"
                       /\ UNCHANGED yielded
                  ELSE LET content_length == DeclaredLength(headers')
                       IN IF content_length = None
                          THEN /\ buffer' = r.rest
                               /\ pc' = "read"
                               /\ UNCHANGED yielded
                          ELSE LET p == receive_exactly(r.rest, content_length.n)
                               IN IF p.incomplete
                                  THEN /\ pc' = "done"
                                       /\ buffer' = r.rest
                                       /\ UNCHANGED yielded
                                  ELSE /\ yielded' = Append(yielded, p.bytes)
                                       /\ buffer' = p.rest
                                       /\ pc' = "read"
    /\ UNCHANGED <<tvars, sent, framed, dvars>>

(* The streams the reader is run on *)

Bodies ==
    { <<"{", "}">>, <<"x">>, <<"{", LF, "}">>, ContentLength \o <<"2">> }

BodySeqs == UNION { [1..n -> Bodies] : n \in 0..MaxFrames }

RECURSIVE EncodeAll(_, _)
EncodeAll(bodies, lsp_framing) ==
    IF bodies = <<>> THEN <<>>
    ELSE stdin_payload(Head(bodies), lsp_framing) \o EncodeAll(Tail(bodies), lsp_framing)

\* a header block whose Content-Length value is no integer
BadLengthBlock == ContentLength \o <<" ", "x", CR, LF, CR, LF>>

Chunks ==
    { ContentLength, <<" ">>, <<"2">>, <<"x">>, <<CR, LF>>, <<LF>>, <<"{", "}">> }

ChunkSeqs == UNION { [1..n -> Chunks] : n \in 0..MaxChunks }

FrameInit ==
    /\ Fresh
    /\ resume = None
    /\ pc = "read"
    /\ headers = <<>>
    /\ yielded = <<>>
    /\ DecodeIdle
    /\ \/ \E bodies \in BodySeqs, lsp_framing \in BOOLEAN :
            /\ sent = bodies
            /\ framed = IF lsp_framing THEN "headers" ELSE "lines"
            /\ buffer = EncodeAll(bodies, lsp_framing)
       \/ \E bodies \in BodySeqs, lsp_framing \in BOOLEAN :
            \E n \in 0..(Len(EncodeAll(bodies, lsp_framing)) - 1) :
                /\ sent = bodies
                /\ framed = "cut"
                /\ buffer = SubSeq(EncodeAll(bodies, lsp_framing), 1, n)
       \/ \E chunks \in ChunkSeqs :
            /\ sent = <<>>
            /\ framed = "raw"
            /\ buffer = Flatten(chunks)
       \/ \E bodies \in BodySeqs :
            /\ sent = bodies
            /\ framed = "badlength"
            /\ buffer = BadLengthBlock \o EncodeAll(bodies, FALSE)

FrameNext == ReadLine \/ ReadHeaderLine

FrameSpec == FrameInit /\ [][FrameNext]_vars

-----------------------------------------------------------------------------
(* Properties of the translator *)

Token(sid) == ResumeToken(ENGINE, sid.s)

\* the events of the latest call that carry a resume token
HasResume(e) == IsStarted(e) \/ IsCompleted(e)

\* the error a terminal event asks to report
ExpectedError(d) ==
    LET err == IF IsError(d) THEN Field(d, "error") ELSE Field(Field(d, "run"), "error")
    IN IF err.t = "dict" THEN Field(err, "message")
       ELSE IF err.t = "str" THEN err
       ELSE None

\* C1: over any sequence of translate calls on a fresh state at most one Started
\* is emitted in total, and emitted_started never goes from true back to false.
C1_StartedAtMostOnce ==
    /\ [](Len(started) <= 1)
    /\ [][state.emitted_started => state'.emitted_started]_vars

\* a later run.* event that carries a session id emits no second Started
C1_Witness ==
    /\ Len(started) = 1
    /\ state.emitted_started
    /\ CarriedSid(data) # None
    /\ Count(out, IsStarted) = 0

\* C2: while all run.* events carry the same non-empty session id (message.part
\* events in between), Started is emitted exactly once, by the first run.* event,
\* with that session id, and before every Completed, also one of the same call;
\* parts "a", "b" and run.completed give [Started, Completed(ok, "ab")].
C2_StartedOnceAndFirst ==
    /\ uniform = None => started = <<>>
    /\ uniform.t = "str" =>
        /\ started = <<StartedEvent(ENGINE, Token(uniform), <<"Droid">>)>>
        /\ \A i \in DOMAIN out :
             IsCompleted(out[i]) =>
                \/ Len(started) > Count(out, IsStarted)
                \/ \E j \in 1..(i - 1) : IsStarted(out[j])
        /\ (IsRunCompleted(data) /\ Count(out, IsStarted) = 1) =>
             out = << StartedEvent(ENGINE, Token(uniform), <<"Droid">>),
                      CompletedEvent(ENGINE, TRUE, requested_text, Token(uniform), None) >>

\* parts "a" and "b", then run.completed as the first run.* event
C2_Witness ==
    /\ uniform = JStr(S1)
    /\ IsRunCompleted(data)
    /\ Len(out) = 2
    /\ out[2].answer = <<"a", "b">>

\* C3: as long as no replace was requested, last_text is the concatenation of the
\* plain-text contents of the message.part events, in arrival order.
C3_PartsConcatenate == ~replaced => state.last_text = requested_text

\* two parts with different contents were appended
C3_Witness ==
    /\ ~replaced
    /\ IsAppend(data)
    /\ state.last_text = <<"a", "b">>

\* C4: an agent message.created or message.completed with non-empty plain text
\* replaces last_text by the concatenation of its text parts, whatever was
\* accumulated; later message.part events append to the replaced text.
C4_AgentMessageReplaces ==
    /\ IsReplace(data) => state.last_text = Flatten(PlainTexts(AgentMessage(data)))
    /\ replaced => state.last_text = requested_text

\* a part appended to a text that came from a replace
C4_Witness ==
    /\ replaced
    /\ IsAppend(data)
    /\ state.last_text = <<"b", "a">>

\* C5: the answer of every Completed is the accumulated text at the moment of the
\* terminal event: the text the appends and replaces requested so far leave.
C5_AnswerIsAccumulatedText ==
    \A i \in DOMAIN out :
        IsCompleted(out[i]) =>
            /\ out[i].answer = requested_text
            /\ out[i].answer = state.last_text

\* an error event after a replace and an append
C5_Witness ==
    /\ IsError(data)
    /\ replaced
    /\ Len(out) = 1
    /\ out[1].answer = <<"b", "a">>

\* C6 as stated: once a non-empty session id is stored, no later event changes it.
C6_FirstSeenWins ==
    [][NonEmptyStr(state.session_id) => state'.session_id = state.session_id]_vars

\* C6 as amended: the latest session id wins. A run.* event whose run object
\* carries a non-empty session id stores it, also over a different one; no other
\* event changes the stored session id; the resume token of a Completed is the
\* stored (latest) session id, while Started carried the first one.
C6_LastSeenWins ==
    [][ /\ CarriedSid(data') # None => state'.session_id = CarriedSid(data')
        /\ CarriedSid(data') = None => state'.session_id = state.session_id
        /\ \A i \in DOMAIN out' :
             (IsCompleted(out'[i]) /\ NonEmptyStr(state'.session_id)) =>
                out'[i].resume = Token(state'.session_id)
        /\ started # <<>> => started' = started ]_vars

\* Started carried s1, a later run.completed carries s2 and its Completed resumes s2
C6_Witness ==
    /\ started = <<StartedEvent(ENGINE, ResumeToken(ENGINE, S1), <<"Droid">>)>>
    /\ IsRunCompleted(data)
    /\ state.session_id = JStr(S2)
    /\ Len(out) = 1
    /\ out[1].resume = ResumeToken(ENGINE, S2)

\* C9: run.failed, run.cancelled and error give exactly one Completed, with
\* ok = false and the message of the error (the message field of an error object,
\* the error itself when a string, else none); run.completed gives exactly one
\* Completed with ok = true and no error.
C9_TerminalEvents ==
    /\ (IsRunFailure(data) \/ IsError(data)) =>
        /\ Count(out, IsCompleted) = 1
        /\ \A i \in DOMAIN out :
             IsCompleted(out[i]) =>
                out[i].ok = FALSE /\ out[i].error = ExpectedError(data)
    /\ IsRunCompleted(data) =>
        /\ Count(out, IsCompleted) = 1
        /\ \A i \in DOMAIN out :
             IsCompleted(out[i]) => out[i].ok = TRUE /\ out[i].error = None

\* run.failed whose error is a string, reported as it is
C9_Witness ==
    /\ IsRunFailure(data)
    /\ Field(Field(data, "run"), "error") = Boom
    /\ Len(out) = 1
    /\ out[1].error = Boom

\* C10 as stated: the resume token of Started and Completed is the session id the
\* current message carries, and the caller's resume token when it carries none.
C10_CurrentOrCaller ==
    \A i \in DOMAIN out :
        HasResume(out[i]) =>
            out[i].resume = IF CarriedSid(data) # None THEN Token(CarriedSid(data))
                            ELSE resume

\* C10 as amended: the session id the current message carries; when it carries
\* none, the session id stored by an earlier run.* event; when none is stored
\* either, the caller's resume token.
C10_CurrentStoredOrCaller ==
    [][ \A i \in DOMAIN out' :
          HasResume(out'[i]) =>
             out'[i].resume = IF CarriedSid(data') # None THEN Token(CarriedSid(data'))
                              ELSE IF NonEmptyStr(state.session_id)
                              THEN Token(state.session_id)
                              ELSE resume ]_vars

\* an error event after a session id was stored: the stored id, not the caller's
C10_Witness ==
    /\ IsError(data)
    /\ resume = ResumeToken(ENGINE, <<"r0">>)
    /\ Len(out) = 1
    /\ out[1].resume = ResumeToken(ENGINE, S1)

-----------------------------------------------------------------------------
(* Properties of the frame reader *)

Ended == pc \in {"done", "raised"}

\* C7: frames built as stdin_payload builds them with lsp_framing on, back to
\* back, are read back by iter_json_lines: it yields each body once, byte for
\* byte and in order, and ends.
C7_HeaderFramingRoundTrip ==
    (framed = "headers" /\ Ended) => (pc = "done" /\ yielded = sent)

\* C8: wherever the stream ends, iter_json_lines ends without raising.
C8_EndsWithoutRaising == pc # "raised"

\* the newline-terminated lines of a stream, without their newline, in order
RECURSIVE SplitLines(_)
SplitLines(bytes) ==
    LET n == Find(bytes, LF)
    IN IF n = 0 THEN <<>>
       ELSE <<SubSeq(bytes, 1, n - 1)>> \o SplitLines(SubSeq(bytes, n + 1, Len(bytes)))

\* C16: with lsp_framing off, every newline-terminated line of the stream is
\* yielded as one payload, in order, also a line that starts with
\* Content-Length:, and the reader ends without raising.
C16_LineFramingYieldsEveryLine ==
    (framed = "lines" /\ Ended) =>
        (pc = "done" /\ yielded = SplitLines(EncodeAll(sent, FALSE)))

\* C17: after a header block whose Content-Length value is no integer, the
\* reader yields nothing for the block, does not raise, and yields the lines
\* that follow the block.
C17_BadLengthSkipsFrame ==
    (/\ framed = "badlength"
     /\ Ended
     /\ \A i \in DOMAIN sent : ~IsContentLength(sent[i])) =>
        (pc = "done" /\ yielded = SplitLines(EncodeAll(sent, FALSE)))

-----------------------------------------------------------------------------
(* Properties of the Action events *)

\* C11: action_seq never decreases, it grows by exactly one for each Action
\* emitted, and no two Action events emitted for one state carry the same id.
C11_ActionCounter ==
    /\ [](/\ Len(actions) = state.action_seq
          /\ \A i, j \in DOMAIN actions : i # j => actions[i] # actions[j])
    /\ [][ /\ state'.action_seq >= state.action_seq
           /\ state'.action_seq = state.action_seq + Count(out', IsAction) ]_vars

\* a second Action was emitted
C11_Witness ==
    /\ state.action_seq = 2
    /\ Len(actions) = 2
    /\ Count(out, IsAction) = 1

\* the metadata of a message.part when its kind is trajectory, else None
TrajectoryOf(d) ==
    LET metadata == Field(Field(d, "part"), "metadata")
    IN IF IsPart(d) /\ Field(metadata, "kind") = Trajectory THEN metadata ELSE None

\* C12: a message.part with trajectory metadata emits exactly one Action, with or
\* without plain text in the part (the text is appended in the same call): kind
\* tool and the tool name as title when tool_name is a non-empty string, else
\* kind note and title "trajectory"; phase completed, ok true. A message.part
\* without trajectory metadata emits nothing.
C12_TrajectoryAction ==
    /\ TrajectoryOf(data) # None =>
        /\ Len(out) = 1
        /\ IsAction(out[1])
        /\ out[1].phase = "completed"
        /\ out[1].ok = TRUE
        /\ LET tool_name == Field(TrajectoryOf(data), "tool_name")
           IN IF tool_name.t = "str" /\ tool_name.s # <<>>
              THEN out[1].action.kind = "tool" /\ out[1].action.title = tool_name.s
              ELSE out[1].action.kind = "note" /\ out[1].action.title = <<"trajectory">>
    /\ (IsPart(data) /\ TrajectoryOf(data) = None) => out = <<>>
    /\ IsPart(data) => state.last_text = requested_text

\* a part with text and a tool trajectory: the text is appended, the Action emitted
C12_Witness ==
    /\ data = JDict([type |-> JStr(<<"message.part">>),
                     part |-> PartWith(TextPlain, JStr(<<"a">>), MetaTool)])
    /\ out[1].action.kind = "tool"
    /\ out[1].action.title = <<"Read">>
    /\ state.last_text = <<"b", "a">>

-----------------------------------------------------------------------------
(* Properties of the translator on malformed input *)

Recognized(d) == IsRun(d) \/ IsPart(d) \/ IsMessage(d) \/ IsError(d)

\* translate returned: a list of events, and the state is an AcpStreamState
Returned ==
    /\ \A i \in DOMAIN out : IsStarted(out[i]) \/ IsCompleted(out[i]) \/ IsAction(out[i])
    /\ Len(out) <= 2
    /\ state.session_id.t \in {"null", "str"}
    /\ state.emitted_started \in BOOLEAN
    /\ state.action_seq \in Nat
    /\ Len(state.last_text) >= 0

\* C13: translate returns for every decoded value, also when the nested fields
\* of a recognized type are missing or of the wrong shape; a value that is no
\* mapping, has no type, a type that is no string, or a type outside run.*,
\* message.part, message.created, message.completed and error gives the empty
\* list and leaves the session state as it was.
C13_MalformedInput ==
    /\ []Returned
    /\ [][~Recognized(data') => (out' = <<>> /\ state' = state)]_vars

\* an unrecognized type after a session was started and text accumulated
C13_Witness ==
    /\ data = JDict([type |-> JStr(<<"ping">>), run |-> JDict([session_id |-> JStr(S2)])])
    /\ out = <<>>
    /\ state.session_id = JStr(S1)
    /\ state.last_text = <<"a">>

\* C18 as stated: the id of every emitted Action is the engine name of the
\* event's engine field, then .trajectory., then the action counter as it is
\* right after its increment.
C18_IdNamesEngine ==
    \A i \in DOMAIN out :
        IsAction(out[i]) =>
            out[i].action.id =
                out[i].engine \o <<".", "trajectory", ".">> \o FormatInt(state.action_seq)

\* C18, amended: the id of every emitted Action is the fixed text
\* acp.trajectory. followed by the action counter as it is right after its
\* increment, whatever the engine name; the engine field of the event is the
\* runner's ENGINE, droid.
C18_IdIsAcpTrajectorySeq ==
    \A i \in DOMAIN out :
        IsAction(out[i]) =>
            /\ out[i].action.id = <<"acp", ".", "trajectory", ".">> \o FormatInt(state.action_seq)
            /\ out[i].engine = <<"droid">>

\* the second Action of a run
C18_Witness ==
    /\ Len(out) = 1
    /\ IsAction(out[1])
    /\ out[1].action.id = <<"acp", ".", "trajectory", ".", "2">>
    /\ out[1].engine = ENGINE

-----------------------------------------------------------------------------
(* Properties of message.created and message.completed *)

\* C19: message.created and message.completed emit nothing and leave the session
\* id, the started flag and the action counter alone; without an agent role
\* (role missing, no string, or not starting with agent) or without non-empty
\* plain-text content in the parts they leave the accumulated text alone too.
C19_MessageEventsAreSilent ==
    [][ IsMessage(data') =>
            /\ out' = <<>>
            /\ state'.session_id = state.session_id
            /\ state'.emitted_started = state.emitted_started
            /\ state'.action_seq = state.action_seq
            /\ (AgentMessage(data') = None \/ Flatten(PlainTexts(Field(data', "message"))) = <<>>)
                   => state'.last_text = state.last_text ]_vars

\* a message of the user with text, after text, a session id and an Action
C19_Witness ==
    /\ data = JDict([type |-> JStr(<<"message.completed">>),
                     message |-> Message(JStr(<<"user">>), OneA)])
    /\ out = <<>>
    /\ state = [session_id |-> JStr(S1), last_text |-> <<"b">>,
                emitted_started |-> TRUE, action_seq |-> 1]

-----------------------------------------------------------------------------
(* The started flag and the stored session id *)

\* the started flag is set exactly when a non-empty session id is stored, and
\* exactly when Started was emitted
FlagIffSession ==
    /\ state.emitted_started <=> NonEmptyStr(state.session_id)
    /\ state.emitted_started <=> (Len(started) = 1)

\* a Completed that resumes the stored session id comes after Started
CompletedAfterStarted ==
    \A i \in DOMAIN out :
        (/\ IsCompleted(out[i])
         /\ NonEmptyStr(state.session_id)
         /\ out[i].resume = Token(state.session_id)) =>
            \/ Len(started) > Count(out, IsStarted)
            \/ \E j \in 1..(i - 1) : IsStarted(out[j])

\* C20 as stated: from a fresh state the started flag is set exactly when a
\* non-empty session id is stored, every call that stores a session id emits
\* Started, and every Completed that resumes the stored session id comes after
\* Started.
C20_StoredOnlyWithStarted ==
    /\ [](FlagIffSession /\ CompletedAfterStarted)
    /\ [][ state'.session_id # state.session_id => Count(out', IsStarted) = 1 ]_vars

\* C20, amended: from a fresh state the started flag is set exactly when a
\* non-empty session id is stored; the call that stores the first session id
\* emits Started with that id, a later call may store another session id without
\* emitting Started; every Completed that resumes the stored session id comes
\* after Started.
C20_FirstStoredWithStarted ==
    /\ [](FlagIffSession /\ CompletedAfterStarted)
    /\ [][ (state.session_id = None /\ state'.session_id # None) =>
              /\ Len(out') >= 1
              /\ IsStarted(out'[1])
              /\ out'[1].resume = Token(state'.session_id)
              /\ Count(out', IsStarted) = 1 ]_vars

\* the first session id is stored by a run.failed: Started, then Completed
C20_Witness ==
    /\ IsRunFailure(data)
    /\ Len(out) = 2
    /\ IsStarted(out[1])
    /\ IsCompleted(out[2])
    /\ out[2].resume = Token(state.session_id)
    /\ started = <<out[1]>>

-----------------------------------------------------------------------------
(* The event decoder. A line is a sequence of tokens; the literals the code
   tests ("data:", the sentinels, the control prefixes) are whole tokens, and a
   JSON document is one token. *)

\* the JSON documents of the model and what json.loads gives for them
JsonDocs == { "{\"type\": \"ping\"}", "7", "null" }

JsonValue(doc) ==
    IF doc = "7" THEN JInt(7)
    ELSE IF doc = "null" THEN None
    ELSE JDict([type |-> JStr(<<"ping">>)])

\* str.strip() on tokens
RECURSIVE StripText(_)
StripText(text) ==
    IF text # <<>> /\ Head(text) = " " THEN StripText(Tail(text))
    ELSE IF text # <<>> /\ text[Len(text)] = " "
    THEN StripText(SubSeq(text, 1, Len(text) - 1))
    ELSE text

\* str.lower() on tokens
LowerToken(tok) ==
    IF tok = "EVENT:" THEN "event:"
    ELSE IF tok = "[DONE]" THEN "[done]"
    ELSE tok
LowerText(text) == [i \in 1..Len(text) |-> LowerToken(text[i])]

\* json.loads(text); JSONDecodeError is [ok |-> FALSE]
json_loads(text) ==
    IF Len(text) = 1 /\ text[1] \in JsonDocs
    THEN [ok |-> TRUE, value |-> JsonValue(text[1])]
    ELSE [ok |-> FALSE, value |-> None]

\* lines 103-114
decode_jsonl(l) ==
    LET text == StripText(l)
    IN IF text = <<>> THEN None
       ELSE LET payload == IF StartsWith(text, <<"data:">>)
                           THEN StripText(Tail(text))
                           ELSE text
            IN IF payload \in {<<"[DONE]">>, <<"done">>} THEN None
               ELSE IF json_loads(payload).ok THEN json_loads(payload).value
               ELSE None

\* JsonlSubprocessRunner.invalid_json_events: one diagnostic that carries the line
base_invalid_json_events(raw, l) ==
    <<[type |-> "invalid_json", engine |-> ENGINE, raw |-> raw, line |-> l]>>

ControlPrefixes == { <<":">>, <<"event:">>, <<"id:">>, <<"retry:">> }

\* as invalid_json_events, but the prefixes are compared as written
invalid_json_events_case_sensitive(raw, l) ==
    LET stripped == StripText(l)
    IN IF stripped = <<>> THEN <<>>
       ELSE IF \E prefix \in ControlPrefixes : StartsWith(stripped, prefix) THEN <<>>
       ELSE base_invalid_json_events(raw, l)

\* lines 116-130
invalid_json_events(raw, l) ==
    LET stripped == StripText(l)
        lowered == LowerText(stripped)
    IN IF stripped = <<>> THEN <<>>
       ELSE IF \E prefix \in ControlPrefixes : StartsWith(lowered, prefix) THEN <<>>
       ELSE base_invalid_json_events(raw, l)

LineTokens ==
    { " ", "data:", "[DONE]", "done", ":", "event:", "EVENT:", "id:", "retry:", "x" }
    \cup JsonDocs

Lines == UNION { [1..n -> LineTokens] : n \in 0..MaxTokens }

DecodeInit ==
    /\ Fresh
    /\ resume = None
    /\ FrameIdle
    /\ raw_line \in Lines
    /\ decoded = Pending
    /\ diagnostics = <<>>

\* the host's step for one payload: decode it; a payload that decodes to nothing
\* is handed to invalid_json_events
HandleLine ==
    /\ decoded = Pending
    /\ decoded' = decode_jsonl(raw_line)
    /\ diagnostics' = IF decode_jsonl(raw_line) = None
                      THEN invalid_json_events(raw_line, raw_line)
                      ELSE <<>>
    /\ UNCHANGED <<tvars, fvars, raw_line>>

DecodeNext == HandleLine

DecodeSpec == DecodeInit /\ [][DecodeNext]_vars

-----------------------------------------------------------------------------
(* Properties of the event decoder *)

Handled == decoded # Pending

\* the text of the line: trimmed, a leading data: removed, trimmed again
PayloadOf(l) ==
    LET text == StripText(l)
    IN IF text # <<>> /\ Head(text) = "data:" THEN StripText(Tail(text)) ELSE text

IsSentinelLine(l) == PayloadOf(l) \in {<<"[DONE]">>, <<"done">>}

ParsesAsJson(l) == Len(PayloadOf(l)) = 1 /\ PayloadOf(l)[1] \in JsonDocs

ControlPrefixed(l) ==
    StripText(l) # <<>> /\ LowerToken(Head(StripText(l))) \in {":", "event:", "id:", "retry:"}

\* C14: a non-empty line that does not parse as JSON (and is no terminator
\* sentinel) decodes to nothing; with a control prefix :, event:, id: or retry:,
\* in any case, it gives no diagnostic, otherwise exactly one invalid-input
\* diagnostic that carries the raw line.
C14_InvalidLines ==
    (/\ Handled
     /\ StripText(raw_line) # <<>>
     /\ ~IsSentinelLine(raw_line)
     /\ ~ParsesAsJson(raw_line)) =>
        /\ decoded = None
        /\ ControlPrefixed(raw_line) => diagnostics = <<>>
        /\ ~ControlPrefixed(raw_line) =>
             /\ Len(diagnostics) = 1
             /\ diagnostics[1].type = "invalid_json"
             /\ diagnostics[1].raw = raw_line

\* an upper-case control prefix gives nothing
C14_Witness ==
    /\ Handled
    /\ raw_line = <<"EVENT:", " ", "x">>
    /\ decoded = None
    /\ diagnostics = <<>>

\* C15: a line that is a terminator sentinel, [DONE] or done, also after data:,
\* gives nothing at all: no decoded event and no invalid-input diagnostic.
C15_SentinelYieldsNothing ==
    (Handled /\ IsSentinelLine(raw_line)) => (decoded = None /\ diagnostics = <<>>)

====
